---- MODULE Spec2Model ----
(***************************************************************************)
(* Model of the useForm hook (src/lib/useForm.ts): the merge of default    *)
(* values, modified fields and the raw store into one value snapshot, the  *)
(* input adapter, and the lifecycle operations (register, setValue, reset, *)
(* submit).                                                                *)
(*                                                                         *)
(* Refs (formRef, modifiedFieldsRef, registeredFieldsRef) are read and     *)
(* written in place.  The values state is read by the handlers through the *)
(* closure of the render that created them, so it is modelled as a pair:   *)
(* the state of the last render and the state after the queued updates,    *)
(* which the next render shows.  No handler reads errors, touched or       *)
(* isDirty (setTouched uses an updater on the queued state), so for these  *)
(* the model keeps the state after the queued updates, which is what the   *)
(* hook returns once React has rendered.                                   *)
(*                                                                         *)
(* The elements the rendering layer binds with register(name) are part of  *)
(* the state: whether the node is in the document and what it displays.    *)
(* A commit of React calls the ref callbacks of the rendered elements one  *)
(* after the other; each call is a step, taken when the handlers are those *)
(* of a render that shows every queued write.                              *)
(***************************************************************************)
EXTENDS Integers, Sequences, FiniteSets, TLC

(***************************************************************************)
(* Bounds                                                                  *)
(***************************************************************************)
\* number of validation runs that may be awaiting the validator at once
MaxInFlight == 1
\* number of deferred passes of setupInputElement that may be pending at once
MaxDeferred == 1

(***************************************************************************)
(* Field values (FormFieldValue).  Every value is a record of one shape so *)
(* that values of different JavaScript types can be compared.              *)
(***************************************************************************)
Str(x)  == [t |-> "string",    s |-> x,  b |-> FALSE, a |-> <<>>]
Bool(x) == [t |-> "boolean",   s |-> "", b |-> x,     a |-> <<>>]
Arr(x)  == [t |-> "array",     s |-> "", b |-> FALSE, a |-> x]
Undef   == [t |-> "undefined", s |-> "", b |-> FALSE, a |-> <<>>]
Null    == [t |-> "null",      s |-> "", b |-> FALSE, a |-> <<>>]
\* marks a key that an object does not have (distinct from a key whose value is undefined)
Absent  == [t |-> "absent",    s |-> "", b |-> FALSE, a |-> <<>>]

IsArray(v) == v.t = "array"

\* Array.prototype.includes on an array of tokens
Includes(arr, x) == \E i \in DOMAIN arr : arr[i] = x

\* Array.prototype.filter((v) => v !== x)
RECURSIVE FilterOut(_, _)
FilterOut(arr, x) ==
  IF arr = <<>> THEN <<>>
  ELSE IF Head(arr) = x THEN FilterOut(Tail(arr), x)
       ELSE <<Head(arr)>> \o FilterOut(Tail(arr), x)

\* JavaScript truthiness of a field value (used by the demo validators)
Truthy(v) ==
  CASE v.t = "string"  -> v.s # ""
    [] v.t = "boolean" -> v.b
    [] v.t = "array"   -> TRUE
    [] OTHER           -> FALSE

(***************************************************************************)
(* The form: its field keys and the elements the rendering layer binds.    *)
(***************************************************************************)
\* "name" is a text input, "tags" a group of checkboxes; "crsf" has no input element
\* unless the rendering layer binds a file input to it
Keys == {"name", "tags", "crsf"}
TextKeys == {"name"}
GroupKeys == {"tags"}
ElementKeys == TextKeys \cup GroupKeys
\* value attributes of the checkboxes of the group
Tokens == {"x", "music", "sports"}

\* objects: a value per key, Absent where the object has no such key
EmptyObject == [k \in Keys |-> Absent]
HasKey(obj, k) == obj[k] # Absent
ObjectKeys(obj) == {k \in Keys : HasKey(obj, k)}
\* obj[k] as JavaScript reads it
Get(obj, k) == IF HasKey(obj, k) THEN obj[k] ELSE Undef
\* { ...a, ...b }
Spread(a, b) == [k \in Keys |-> IF HasKey(b, k) THEN b[k] ELSE a[k]]
\* { ...obj, [k]: v }
With(obj, k, v) == [obj EXCEPT ![k] = v]

\* the defaultValues option the caller constructs the form with
DefaultsAnn == [name |-> Str("Ann"), tags |-> Arr(<<"x">>), crsf |-> Str("bla")]
DefaultsEmpty == [name |-> Str(""), tags |-> Arr(<<>>), crsf |-> Str("bla")]
DefaultChoices == {DefaultsAnn, DefaultsEmpty}

\* the validator option: the demo validator's rule for the name field
Validator(vals) ==
  [k \in Keys |-> IF k = "name" /\ ~Truthy(Get(vals, "name"))
                  THEN Str("Name is required") ELSE Absent]

\* change events the elements of a field emit: the text input is cleared, the
\* checkbox of the default token is toggled
\* (options: the option elements of a select, in document order)
NoEvent == [type |-> "none", value |-> "", checked |-> FALSE, options |-> <<>>]
TextEvent(v) == [type |-> "text", value |-> v, checked |-> FALSE, options |-> <<>>]
CheckboxEvent(tok, c) == [type |-> "checkbox", value |-> tok, checked |-> c, options |-> <<>>]
\* a change event of a <select multiple>; only an HTMLSelectElement has this type
SelectEvent(opts) == [type |-> "select-multiple", value |-> "", checked |-> FALSE, options |-> opts]
EventsOf(k) ==
  IF k \in TextKeys THEN {TextEvent("")}
  ELSE IF k \in GroupKeys THEN {CheckboxEvent("x", c) : c \in BOOLEAN}
  ELSE {}
\* change events of the whole checkbox group
GroupEvents == {CheckboxEvent(tok, c) : tok \in Tokens, c \in BOOLEAN}

\* values the application passes to setValue
SetValueInputs(k) ==
  IF k \in TextKeys THEN {Str("")}
  ELSE {}

\* options of the hook
VARIABLE controlled
VARIABLE hasValidator
\* the defaultValues option as the last render received it
VARIABLE defaultValues
\* refs: read and written in place
VARIABLE defaultValuesRef
VARIABLE formRef
VARIABLE registeredFieldsRef
VARIABLE modifiedFieldsRef
\* the values state as of the last render (what the handlers of that render close over)
VARIABLE values
\* the values state after the updates queued since the last render
VARIABLE queuedValues
\* the errors, touched and isDirty state
VARIABLE errors
VARIABLE touched
VARIABLE isDirty
\* validation runs awaiting their validator call, in start order
VARIABLE inflight
\* the last operation handled and what it observed
VARIABLE last
\* per checkbox of the group, its last change event in a run of checkbox events
VARIABLE lastToggle
\* per element, its node
VARIABLE elements
\* the deferred passes of setupInputElement that are pending (setTimeout 0), oldest
\* first: the element and the currentValue each was set up with
VARIABLE timers

config == <<controlled, hasValidator, defaultValues, defaultValuesRef>>
dom == <<elements, timers>>
refs == <<formRef, registeredFieldsRef, modifiedFieldsRef>>
state == <<values, queuedValues, errors, touched, isDirty>>
vars == <<config, refs, state, inflight, last, lastToggle, dom>>


(***************************************************************************)
(* Elements of the one form of the document: a text input, the checkbox of *)
(* the token "x" and a file input, each with the name attribute that       *)
(* register(name) gives it.  The form has no select, radio or textarea.    *)
(***************************************************************************)
Elements == {"nameInput", "tagsX", "crsfFile"}
\* element.type
ElementType(element) ==
  CASE element = "nameInput" -> "text"
    [] element = "tagsX"     -> "checkbox"
    [] element = "crsfFile"  -> "file"
\* element.name
NameOf(element) ==
  CASE element = "nameInput" -> "name"
    [] element = "tagsX"     -> "tags"
    [] element = "crsfFile"  -> "crsf"
\* the value attribute of a checkbox
ValueAttr(element) == "x"

\* a node: whether it is in the document, the value it displays (for the file input
\* the chosen file), whether the user or a script has set that value (a text input
\* shows its defaultValue until then), and the checked state
FreshNode == [checked |-> FALSE, attached |-> FALSE, shown |-> "", dirty |-> FALSE]
\* what the user sees of a node
Display(node) == [checked |-> node.checked, shown |-> node.shown]

\* Array.prototype.join(",")
RECURSIVE Join(_)
Join(arr) ==
  IF arr = <<>> THEN ""
  ELSE IF Len(arr) = 1 THEN Head(arr)
       ELSE Head(arr) \o "," \o Join(Tail(arr))

\* String(v) and v.toString()
JsString(v) ==
  CASE v.t = "string"  -> v.s
    [] v.t = "boolean" -> IF v.b THEN "true" ELSE "false"
    [] v.t = "array"   -> Join(v.a)
    [] v.t = "null"    -> "null"
    [] OTHER           -> "undefined"

\* currentValue !== undefined ? String(currentValue) : ''
InitialText(currentValue) ==
  IF currentValue.t \in {"undefined", "absent"} THEN "" ELSE JsString(currentValue)

\* defaultValue?.toString() || ''
DefaultText(defaultValue) ==
  IF defaultValue.t \in {"undefined", "absent", "null"} THEN "" ELSE JsString(defaultValue)

(***************************************************************************)
(* Value merger                                                            *)
(***************************************************************************)
\* getCurrentValues without the pass over the modified fields
MergeValuesSpreadOnly(currentFormValues, modified) ==
  Spread(defaultValuesRef, currentFormValues)

\* getCurrentValues without the defaults
MergeValuesNoDefaults(currentFormValues, modified) ==
  [k \in Keys |-> IF k \in modified THEN Get(currentFormValues, k) ELSE currentFormValues[k]]

\* getCurrentValues overwriting a modified key only when the raw store holds it
MergeValuesSkipMissing(currentFormValues, modified) ==
  LET result == Spread(defaultValuesRef, currentFormValues)
  IN [k \in Keys |-> IF k \in modified /\ HasKey(currentFormValues, k)
                     THEN currentFormValues[k] ELSE result[k]]

\* getCurrentValues over a given raw store and modified set
MergeValues(currentFormValues, modified) ==
  LET result == Spread(defaultValuesRef, currentFormValues)
  IN [k \in Keys |-> IF k \in modified THEN Get(currentFormValues, k) ELSE result[k]]

\* getCurrentValues as created by a render whose values state was closureValues
GetCurrentValues(closureValues) ==
  MergeValues(IF controlled THEN closureValues ELSE formRef, modifiedFieldsRef)

\* the raw store the handlers of the last render read
RawStore == IF controlled THEN values ELSE formRef
\* the raw store once the queued writes are visible
VisibleRawStore == IF controlled THEN queuedValues ELSE formRef
\* the values the hook returns (getCurrentValues() of the last render)
Snapshot == GetCurrentValues(values)
\* the values the hook returns once the queued writes are visible
VisibleSnapshot == GetCurrentValues(queuedValues)

\* isValid computed as true whatever the error map holds
IsValidAlways(errs) == Cardinality(ObjectKeys(errs)) >= 0

\* isValid as the hook returns it
IsValid(errs) == ObjectKeys(errs) = {}

(***************************************************************************)
(* Input adapter                                                           *)
(***************************************************************************)
\* a change notification: an instance of Event, or a direct value
InputEvent(ev) == [ev |-> ev, isEvent |-> TRUE, direct |-> Absent]
DirectValue(v) == [ev |-> NoEvent, isEvent |-> FALSE, direct |-> v]

DirectInputs(k) == {}
ChangeInputs(k) ==
  {InputEvent(ev) : ev \in EventsOf(k)} \cup {DirectValue(v) : v \in DirectInputs(k)}

\* the checkbox branch pushing the token without looking for it first
CheckboxValuePush(defaultValue, currentFieldValue, value, checked) ==
  LET currentArray == IF IsArray(currentFieldValue) THEN currentFieldValue.a
                      ELSE IF IsArray(defaultValue) THEN defaultValue.a
                      ELSE <<>>
  IN IF IsArray(defaultValue) \/ IsArray(currentFieldValue)
     THEN IF checked THEN Arr(Append(currentArray, value))
          ELSE Arr(FilterOut(currentArray, value))
     ELSE Bool(checked)

\* the checkbox branch treating every event as a toggle of the token
CheckboxValueToggle(defaultValue, currentFieldValue, value, checked) ==
  LET currentArray == IF IsArray(currentFieldValue) THEN currentFieldValue.a
                      ELSE IF IsArray(defaultValue) THEN defaultValue.a
                      ELSE <<>>
  IN IF IsArray(defaultValue) \/ IsArray(currentFieldValue)
     THEN IF ~Includes(currentArray, value)
          THEN Arr(Append(currentArray, value))
          ELSE Arr(FilterOut(currentArray, value))
     ELSE Bool(checked)

\* the checkbox branch telling a group by the default value alone
CheckboxValueDefaultOnly(defaultValue, currentFieldValue, value, checked) ==
  LET isCheckboxGroup == IsArray(defaultValue)
      currentArray == IF IsArray(currentFieldValue) THEN currentFieldValue.a
                      ELSE IF IsArray(defaultValue) THEN defaultValue.a
                      ELSE <<>>
  IN IF isCheckboxGroup
     THEN IF checked
          THEN IF ~Includes(currentArray, value)
               THEN Arr(Append(currentArray, value))
               ELSE Arr(currentArray)
          ELSE Arr(FilterOut(currentArray, value))
     ELSE Bool(checked)

\* the checkbox branch of handleInputChange
CheckboxValue(defaultValue, currentFieldValue, value, checked) ==
  LET isCheckboxGroup == IsArray(defaultValue) \/ IsArray(currentFieldValue)
      currentArray == IF IsArray(currentFieldValue) THEN currentFieldValue.a
                      ELSE IF IsArray(defaultValue) THEN defaultValue.a
                      ELSE <<>>
  IN IF isCheckboxGroup
     THEN IF checked
          THEN IF ~Includes(currentArray, value)
               THEN Arr(Append(currentArray, value))
               ELSE Arr(currentArray)
          ELSE Arr(FilterOut(currentArray, value))
     ELSE Bool(checked)

\* the select-multiple branch mapping every option, selected or not
RECURSIVE SelectedOptionsAll(_)
SelectedOptionsAll(options) ==
  IF options = <<>> THEN <<>>
  ELSE <<Head(options).value>> \o SelectedOptionsAll(Tail(options))

\* Array.from(target.options).filter((option) => option.selected).map((option) => option.value)
RECURSIVE SelectedOptions(_)
SelectedOptions(options) ==
  IF options = <<>> THEN <<>>
  ELSE IF Head(options).selected
       THEN <<Head(options).value>> \o SelectedOptions(Tail(options))
       ELSE SelectedOptions(Tail(options))

\* newValue with null and undefined direct values replaced by the empty string
NewValueDirectCoerced(name, e, currentFieldValue) ==
  IF e.isEvent
  THEN IF e.ev.type = "checkbox"
       THEN CheckboxValue(Get(defaultValuesRef, name), currentFieldValue,
                          e.ev.value, e.ev.checked)
       ELSE IF e.ev.type = "select-multiple"
            THEN Arr(SelectedOptions(e.ev.options))
            ELSE Str(e.ev.value)
  ELSE IF e.direct \in {Null, Undef} THEN Str("") ELSE e.direct

\* newValue of handleInputChange (the radio branch stores target.value as the last
\* branch does)
NewValue(name, e, currentFieldValue) ==
  IF e.isEvent
  THEN IF e.ev.type = "checkbox"
       THEN CheckboxValue(Get(defaultValuesRef, name), currentFieldValue,
                          e.ev.value, e.ev.checked)
       ELSE IF e.ev.type = "select-multiple"
            THEN Arr(SelectedOptions(e.ev.options))
            ELSE Str(e.ev.value)
  ELSE e.direct

(***************************************************************************)
(* Operations                                                              *)
(***************************************************************************)
NoLast ==
  [errs |-> EmptyObject, e |-> DirectValue(Absent),
   op |-> "init", key |-> "", val |-> Absent, prev |-> Absent,
   kind |-> "", vcall |-> FALSE, snap |-> EmptyObject, valid |-> FALSE,
   cbCalled |-> FALSE, cbArg |-> EmptyObject, trace |-> <<>>,
   threw |-> FALSE, rejected |-> FALSE]

\* the state after construction with one of the given defaultValues options
Construct(defaultsOptions) ==
  /\ controlled \in BOOLEAN
  /\ hasValidator \in BOOLEAN
  /\ defaultValuesRef \in defaultsOptions
  /\ defaultValues = defaultValuesRef
  /\ formRef = EmptyObject
  /\ registeredFieldsRef = {}
  /\ modifiedFieldsRef = {}
  /\ values = EmptyObject
  /\ errors = EmptyObject
  /\ touched = EmptyObject
  /\ isDirty = FALSE
  /\ queuedValues = EmptyObject
  /\ inflight = <<>>
  /\ last = NoLast
  /\ lastToggle = [tok \in Tokens |-> "none"]
  /\ elements = [element \in Elements |-> FreshNode]
  /\ timers = <<>>

Init == Construct({DefaultsAnn})

\* updateFormValue writing a store that holds the written key only
UpdateFormValueReplace(name, value) ==
  /\ modifiedFieldsRef' = modifiedFieldsRef \cup {name}
  /\ IF controlled
     THEN /\ queuedValues' = With(EmptyObject, name, value)
          /\ UNCHANGED formRef
     ELSE /\ formRef' = With(EmptyObject, name, value)
          /\ UNCHANGED queuedValues
  /\ isDirty' = TRUE

\* updateFormValue ignoring empty values
UpdateFormValueSkipEmpty(name, value) ==
  IF Truthy(value)
  THEN /\ modifiedFieldsRef' = modifiedFieldsRef \cup {name}
       /\ IF controlled
          THEN /\ queuedValues' = With(queuedValues, name, value)
               /\ UNCHANGED formRef
          ELSE /\ formRef' = With(formRef, name, value)
               /\ UNCHANGED queuedValues
       /\ isDirty' = TRUE
  ELSE UNCHANGED <<modifiedFieldsRef, queuedValues, formRef, isDirty>>

\* updateFormValue without its setIsDirty(true)
UpdateFormValueNoDirty(name, value) ==
  /\ modifiedFieldsRef' = modifiedFieldsRef \cup {name}
  /\ IF controlled
     THEN /\ queuedValues' = With(queuedValues, name, value)
          /\ UNCHANGED formRef
     ELSE /\ formRef' = With(formRef, name, value)
          /\ UNCHANGED queuedValues
  /\ UNCHANGED isDirty

\* updateFormValue without its modifiedFieldsRef.current.add(name)
UpdateFormValueNoModified(name, value) ==
  /\ UNCHANGED modifiedFieldsRef
  /\ IF controlled
     THEN /\ queuedValues' = With(queuedValues, name, value)
          /\ UNCHANGED formRef
     ELSE /\ formRef' = With(formRef, name, value)
          /\ UNCHANGED queuedValues
  /\ isDirty' = TRUE

\* updateFormValue refusing the write while the error map holds an error
UpdateFormValueBlockedByErrors(name, value) ==
  IF IsValid(errors)
  THEN /\ modifiedFieldsRef' = modifiedFieldsRef \cup {name}
       /\ IF controlled
          THEN /\ queuedValues' = With(queuedValues, name, value)
               /\ UNCHANGED formRef
          ELSE /\ formRef' = With(formRef, name, value)
               /\ UNCHANGED queuedValues
       /\ isDirty' = TRUE
  ELSE UNCHANGED <<modifiedFieldsRef, queuedValues, formRef, isDirty>>

\* updateFormValue: the store write shared by change and setValue
UpdateFormValue(name, value) ==
  /\ modifiedFieldsRef' = modifiedFieldsRef \cup {name}
  /\ IF controlled
     THEN /\ queuedValues' = With(queuedValues, name, value)
          /\ UNCHANGED formRef
     ELSE /\ formRef' = With(formRef, name, value)
          /\ UNCHANGED queuedValues
  /\ isDirty' = TRUE

\* register(name).onChange
HandleInputChange(name, e) ==
  LET currentFieldValue ==
        IF e.isEvent
        THEN MergeValues(RawStore, modifiedFieldsRef \cup {name})[name]
        ELSE Absent
      newValue == NewValue(name, e, currentFieldValue)
  IN /\ UpdateFormValue(name, newValue)
     /\ last' = [NoLast EXCEPT !.op = "change", !.key = name, !.val = newValue,
                               !.prev = currentFieldValue, !.e = e]
     /\ UNCHANGED <<config, registeredFieldsRef, values, errors, touched, inflight>>

\* setValue(name, value)
SetValue(name, value) ==
  /\ UpdateFormValue(name, value)
  /\ last' = [NoLast EXCEPT !.op = "setValue", !.key = name, !.val = value]
  /\ UNCHANGED <<config, registeredFieldsRef, values, errors, touched, inflight>>

\* a validation run whose submit handler does not suppress the native default action
NewRunNoPrevent(kind, modified) ==
  [kind |-> kind,
   vcall |-> hasValidator,
   snap |-> IF hasValidator THEN MergeValues(RawStore, modified) ELSE EmptyObject,
   trace |-> <<"validate">>,
   closure |-> IF kind = "submit" THEN values ELSE EmptyObject]

\* a validation run that calls the validator whether or not one is configured
NewRunAlwaysValidates(kind, modified) ==
  [kind |-> kind,
   vcall |-> TRUE,
   snap |-> MergeValues(RawStore, modified),
   trace |-> IF kind = "submit" THEN <<"preventDefault", "validate">> ELSE <<"validate">>,
   closure |-> IF kind = "submit" THEN values ELSE EmptyObject]

\* a validation run: validate() up to its await.  vcall tells whether the validator
\* was called; snap is the snapshot it was called with; closure is the values state
\* of the render whose handler started the run
NewRun(kind, modified) ==
  [kind |-> kind,
   vcall |-> hasValidator,
   snap |-> IF hasValidator THEN MergeValues(RawStore, modified) ELSE EmptyObject,
   trace |-> IF kind = "submit" THEN <<"preventDefault", "validate">> ELSE <<"validate">>,
   closure |-> IF kind = "submit" THEN values ELSE EmptyObject]

\* register(name).onBlur with setTouched dropping the previous touched map
OnBlurReplaceTouched(name) ==
  /\ touched' = With(EmptyObject, name, Bool(TRUE))
  /\ modifiedFieldsRef' = modifiedFieldsRef \cup {name}
  /\ inflight' = IF hasValidator THEN Append(inflight, NewRun("blur", modifiedFieldsRef \cup {name}))
                  ELSE inflight
  /\ last' = [NoLast EXCEPT !.op = "blur", !.key = name]
  /\ UNCHANGED <<config, formRef, registeredFieldsRef, values, queuedValues,
                 errors, isDirty>>

\* register(name).onBlur
OnBlur(name) ==
  /\ touched' = With(touched, name, Bool(TRUE))
  /\ modifiedFieldsRef' = modifiedFieldsRef \cup {name}
  /\ inflight' = IF hasValidator THEN Append(inflight, NewRun("blur", modifiedFieldsRef \cup {name}))
                  ELSE inflight
  /\ last' = [NoLast EXCEPT !.op = "blur", !.key = name]
  /\ UNCHANGED <<config, formRef, registeredFieldsRef, values, queuedValues,
                 errors, isDirty>>

\* setupInputElement up to the setTimeout: what it writes to the node
SetupInputElement(element, node, currentValue) ==
  IF ElementType(element) = "text"
  THEN [node EXCEPT !.shown = IF node.dirty THEN node.shown ELSE InitialText(currentValue)]
  ELSE node

\* the callback that setupInputElement hands to setTimeout: what it writes to the node
DeferredSetup(element, node, currentValue) ==
  IF ElementType(element) = "checkbox"
  THEN IF IsArray(currentValue)
       THEN [node EXCEPT !.checked = Includes(currentValue.a, ValueAttr(element))]
       ELSE IF currentValue.t = "boolean" THEN [node EXCEPT !.checked = currentValue.b]
            ELSE node
  ELSE node

\* whether the deferred pass of an element can write anything (that of a text or
\* file input matches no branch and is left out of the pending passes)
HasDeferredSetup(element) == ElementType(element) = "checkbox"

\* the node the ref callback receives: the one in the document, or the new one that
\* React has just mounted
NodeOf(element) ==
  IF elements[element].attached THEN elements[element]
  ELSE [FreshNode EXCEPT !.attached = TRUE]

\* the ref callback of register(name) marking the field as modified
RefCallbackMarksModified(name, element) ==
  LET currentValue == Get(Snapshot, name)
  IN /\ values = queuedValues
     /\ HasDeferredSetup(element) => Len(timers) < MaxDeferred
     /\ registeredFieldsRef' = registeredFieldsRef \cup {name}
     /\ modifiedFieldsRef' = modifiedFieldsRef \cup {name}
     /\ elements' = [elements EXCEPT
                       ![element] = SetupInputElement(element, NodeOf(element), currentValue)]
     /\ timers' = IF HasDeferredSetup(element)
                   THEN Append(timers, [element |-> element, currentValue |-> currentValue])
                   ELSE timers
     /\ last' = [NoLast EXCEPT !.op = "ref", !.key = name, !.kind = "attach"]
     /\ UNCHANGED <<config, formRef, state, inflight>>

\* the ref callback of register(name), called in a commit with the element: on mount
\* and again after every render, which makes a new callback.  currentValue is what
\* register(name) read from getCurrentValues() in that render.
RefCallback(name, element) ==
  LET currentValue == Get(Snapshot, name)
  IN /\ values = queuedValues
     /\ HasDeferredSetup(element) => Len(timers) < MaxDeferred
     /\ registeredFieldsRef' = registeredFieldsRef \cup {name}
     /\ elements' = [elements EXCEPT
                       ![element] = SetupInputElement(element, NodeOf(element), currentValue)]
     /\ timers' = IF HasDeferredSetup(element)
                   THEN Append(timers, [element |-> element, currentValue |-> currentValue])
                   ELSE timers
     /\ last' = [NoLast EXCEPT !.op = "ref", !.key = name, !.kind = "attach"]
     /\ UNCHANGED <<config, formRef, modifiedFieldsRef, state, inflight>>

\* the ref callback called with null when React removes the element:
\* setupInputElement returns at once.  The deferred passes still pending for the
\* element will write to a node that is no longer in the document.
Detach(element) ==
  /\ elements[element].attached
  /\ elements' = [elements EXCEPT ![element] = FreshNode]
  /\ timers' = SelectSeq(timers, LAMBDA t : t.element # element)
  /\ last' = [NoLast EXCEPT !.op = "ref", !.key = NameOf(element), !.kind = "detach"]
  /\ UNCHANGED <<config, refs, state, inflight>>

\* the oldest pending deferred pass runs
DeferredPass ==
  /\ timers # <<>>
  /\ LET t == Head(timers)
     IN elements' = [elements EXCEPT
                       ![t.element] = DeferredSetup(t.element, elements[t.element], t.currentValue)]
  /\ timers' = Tail(timers)
  /\ last' = [NoLast EXCEPT !.op = "deferred", !.key = NameOf(Head(timers).element)]
  /\ UNCHANGED <<config, refs, state, inflight>>

\* the sweep of reset() over document.querySelectorAll('form input, ...'): the new
\* node of an element that is in the document
SweepElement(element, node) ==
  LET name == NameOf(element)
      defaultValue == defaultValues[name]
  IN IF ~HasKey(defaultValues, name) THEN node
     ELSE IF ElementType(element) = "checkbox"
          THEN IF IsArray(defaultValue)
               THEN [node EXCEPT !.checked = Includes(defaultValue.a, ValueAttr(element))]
               ELSE IF defaultValue.t = "boolean"
                    THEN [node EXCEPT !.checked = defaultValue.b]
                    ELSE node
          ELSE IF ElementType(element) # "file"
               THEN [node EXCEPT !.shown = DefaultText(defaultValue), !.dirty = TRUE]
               ELSE node

Sweep ==
  [element \in Elements |->
     IF elements[element].attached THEN SweepElement(element, elements[element])
     ELSE elements[element]]

\* reset() leaving the modified set as it is
ResetKeepModified ==
  /\ IF controlled
     THEN /\ queuedValues' = EmptyObject
          /\ UNCHANGED formRef
     ELSE /\ formRef' = EmptyObject
          /\ UNCHANGED queuedValues
  /\ registeredFieldsRef' = {}
  /\ errors' = EmptyObject
  /\ touched' = EmptyObject
  /\ isDirty' = FALSE
  /\ elements' = Sweep
  /\ last' = [NoLast EXCEPT !.op = "reset"]
  /\ UNCHANGED <<config, values, inflight, modifiedFieldsRef, timers>>

\* reset() dropping the validation runs that await their validator
ResetCancelsRuns ==
  /\ IF controlled
     THEN /\ queuedValues' = EmptyObject
          /\ UNCHANGED formRef
     ELSE /\ formRef' = EmptyObject
          /\ UNCHANGED queuedValues
  /\ registeredFieldsRef' = {}
  /\ modifiedFieldsRef' = {}
  /\ errors' = EmptyObject
  /\ touched' = EmptyObject
  /\ isDirty' = FALSE
  /\ inflight' = <<>>
  /\ elements' = Sweep
  /\ last' = [NoLast EXCEPT !.op = "reset"]
  /\ UNCHANGED <<config, values, timers>>

\* reset(), with its sweep over the form elements of the document
Reset ==
  /\ IF controlled
     THEN /\ queuedValues' = EmptyObject
          /\ UNCHANGED formRef
     ELSE /\ formRef' = EmptyObject
          /\ UNCHANGED queuedValues
  /\ registeredFieldsRef' = {}
  /\ modifiedFieldsRef' = {}
  /\ errors' = EmptyObject
  /\ touched' = EmptyObject
  /\ isDirty' = FALSE
  /\ elements' = Sweep
  /\ last' = [NoLast EXCEPT !.op = "reset"]
  /\ UNCHANGED <<config, values, inflight, timers>>

\* the handler returned by handleSubmit(onSubmit), up to the await of the validator
HandleSubmit ==
  /\ inflight' = Append(inflight, NewRun("submit", modifiedFieldsRef))
  /\ last' = [NoLast EXCEPT !.op = "submit"]
  /\ UNCHANGED <<config, refs, state>>

\* the sequence without its i-th element
RemoveAt(seq, i) == SubSeq(seq, 1, i - 1) \o SubSeq(seq, i + 1, Len(seq))

\* a submit handler that calls back whatever validate() returned
CallsOnSubmitAlways(kind, isValid) == kind = "submit"

\* handleSubmit: whether the handler of a run calls onSubmit once validate() has returned
CallsOnSubmit(kind, isValid) == kind = "submit" /\ isValid

\* a submit handler that catches what onSubmit throws and returns normally
HandlerRejectsNever(called, throws) == FALSE

\* handleSubmit: whether the promise of the handler rejects, given whether it called
\* onSubmit and whether onSubmit threw (or returned a promise that rejects)
HandlerRejects(called, throws) == called /\ throws

\* the rest of validate() with setErrors merging the result into the previous state
ResolveMergeErrors(i) ==
  LET run == inflight[i]
      validationErrors == Validator(run.snap)
      hasErrors == run.vcall /\ ObjectKeys(validationErrors) # {}
      isValid == ~hasErrors
      called == CallsOnSubmit(run.kind, isValid)
      submissionValues == GetCurrentValues(run.closure)
  IN \E throws \in (IF called THEN BOOLEAN ELSE {FALSE}) :
     LET rejects == HandlerRejects(called, throws)
     IN /\ errors' = IF run.vcall THEN Spread(errors, validationErrors) ELSE errors
        /\ inflight' = RemoveAt(inflight, i)
        /\ last' = [NoLast EXCEPT !.op = "resolve", !.kind = run.kind, !.vcall = run.vcall,
                                  !.snap = run.snap, !.valid = isValid,
                                  !.cbCalled = called,
                                  !.cbArg = IF called THEN submissionValues ELSE EmptyObject,
                                  !.trace = IF called THEN Append(run.trace, "onSubmit")
                                            ELSE run.trace,
                                  !.errs = errors, !.threw = throws, !.rejected = rejects]
        /\ UNCHANGED <<config, refs, values, queuedValues, touched, isDirty>>

\* the rest of validate() dropping the result of a run while a run that started later
\* is still awaiting its validator
ResolveFenced(i) ==
  LET run == inflight[i]
      validationErrors == Validator(run.snap)
      hasErrors == run.vcall /\ ObjectKeys(validationErrors) # {}
      isValid == ~hasErrors
      called == CallsOnSubmit(run.kind, isValid)
      submissionValues == GetCurrentValues(run.closure)
  IN \E throws \in (IF called THEN BOOLEAN ELSE {FALSE}) :
     LET rejects == HandlerRejects(called, throws)
     IN /\ errors' = IF run.vcall /\ i = Len(inflight) THEN validationErrors ELSE errors
        /\ inflight' = RemoveAt(inflight, i)
        /\ last' = [NoLast EXCEPT !.op = "resolve", !.kind = run.kind, !.vcall = run.vcall,
                                  !.snap = run.snap, !.valid = isValid,
                                  !.cbCalled = called,
                                  !.cbArg = IF called THEN submissionValues ELSE EmptyObject,
                                  !.trace = IF called THEN Append(run.trace, "onSubmit")
                                            ELSE run.trace,
                                  !.errs = errors, !.threw = throws, !.rejected = rejects]
        /\ UNCHANGED <<config, refs, values, queuedValues, touched, isDirty>>

\* the i-th validation run resumes: the rest of validate() and, for a submit, the
\* rest of the submit handler, where onSubmit returns or throws
Resolve(i) ==
  LET run == inflight[i]
      validationErrors == Validator(run.snap)
      hasErrors == run.vcall /\ ObjectKeys(validationErrors) # {}
      isValid == ~hasErrors
      called == CallsOnSubmit(run.kind, isValid)
      submissionValues == GetCurrentValues(run.closure)
  IN \E throws \in (IF called THEN BOOLEAN ELSE {FALSE}) :
     LET rejects == HandlerRejects(called, throws)
     IN /\ errors' = IF run.vcall THEN validationErrors ELSE errors
        /\ inflight' = RemoveAt(inflight, i)
        /\ last' = [NoLast EXCEPT !.op = "resolve", !.kind = run.kind, !.vcall = run.vcall,
                                  !.snap = run.snap, !.valid = isValid,
                                  !.cbCalled = called,
                                  !.cbArg = IF called THEN submissionValues ELSE EmptyObject,
                                  !.trace = IF called THEN Append(run.trace, "onSubmit")
                                            ELSE run.trace,
                                  !.errs = errors, !.threw = throws, !.rejected = rejects]
        /\ UNCHANGED <<config, refs, values, queuedValues, touched, isDirty>>

\* React renders: the queued values state becomes the state the handlers close over
Render ==
  /\ values # queuedValues
  /\ values' = queuedValues
  /\ UNCHANGED <<config, refs, queuedValues, errors, touched, isDirty, inflight, last>>

\* room for one more validation run
CanStartRun == Len(inflight) < MaxInFlight

Next ==
  \/ \E k \in Keys : \E e \in ChangeInputs(k) : HandleInputChange(k, e) /\ UNCHANGED <<lastToggle, dom>>
  \/ \E k \in Keys : \E v \in SetValueInputs(k) : SetValue(k, v) /\ UNCHANGED <<lastToggle, dom>>
  \/ \E k \in ElementKeys : CanStartRun /\ OnBlur(k) /\ UNCHANGED <<lastToggle, dom>>
  \/ Reset /\ UNCHANGED lastToggle
  \/ CanStartRun /\ HandleSubmit /\ UNCHANGED <<lastToggle, dom>>
  \/ \E i \in DOMAIN inflight : Resolve(i) /\ UNCHANGED <<lastToggle, dom>>
  \/ Render /\ UNCHANGED <<lastToggle, dom>>

Spec == Init /\ [][Next]_vars

(***************************************************************************)
(* The form with its elements attaching: the ref callbacks of the text     *)
(* input and of the checkboxes run between the operations on the text      *)
(* field.                                                                  *)
(***************************************************************************)
\* the elements that attach here
AttachElements == {"nameInput"}

NextAttach ==
  \/ \E k \in TextKeys : \E e \in ChangeInputs(k) : HandleInputChange(k, e) /\ UNCHANGED <<lastToggle, dom>>
  \/ \E k \in TextKeys : \E v \in SetValueInputs(k) : SetValue(k, v) /\ UNCHANGED <<lastToggle, dom>>
  \/ \E k \in TextKeys : CanStartRun /\ OnBlur(k) /\ UNCHANGED <<lastToggle, dom>>
  \/ \E element \in AttachElements :
       RefCallback(NameOf(element), element) /\ UNCHANGED lastToggle
  \/ Reset /\ UNCHANGED lastToggle
  \/ CanStartRun /\ HandleSubmit /\ UNCHANGED <<lastToggle, dom>>
  \/ \E i \in DOMAIN inflight : Resolve(i) /\ UNCHANGED <<lastToggle, dom>>
  \/ Render /\ UNCHANGED <<lastToggle, dom>>

SpecAttach == Init /\ [][NextAttach]_vars

(***************************************************************************)
(* Validation runs racing: the text field is cleared and filled in again,  *)
(* blurred and submitted while earlier validation runs are still awaiting  *)
(* their validator.                                                        *)
(***************************************************************************)
\* number of validation runs that may be awaiting the validator at once in a race
MaxRacing == 2
\* what the user types into the text input
RaceTexts == {"", "Bob"}

CanRace == Len(inflight) < MaxRacing

NextRace ==
  \/ \E k \in TextKeys : \E v \in RaceTexts :
       HandleInputChange(k, InputEvent(TextEvent(v))) /\ UNCHANGED <<lastToggle, dom>>
  \/ \E k \in TextKeys : SetValue(k, Str("Bob")) /\ UNCHANGED <<lastToggle, dom>>
  \/ \E k \in TextKeys : CanRace /\ OnBlur(k) /\ UNCHANGED <<lastToggle, dom>>
  \/ CanRace /\ HandleSubmit /\ UNCHANGED <<lastToggle, dom>>
  \/ \E i \in DOMAIN inflight : Resolve(i) /\ UNCHANGED <<lastToggle, dom>>
  \/ Render /\ UNCHANGED <<lastToggle, dom>>

SpecRace == Init /\ [][NextRace]_vars

(***************************************************************************)
(* Submissions pending: the form is edited, submitted and reset while      *)
(* submit handlers await their validator.                                  *)
(***************************************************************************)
NextPending ==
  \/ \E k \in TextKeys : \E v \in RaceTexts :
       HandleInputChange(k, InputEvent(TextEvent(v))) /\ UNCHANGED <<lastToggle, dom>>
  \/ CanRace /\ HandleSubmit /\ UNCHANGED <<lastToggle, dom>>
  \/ Reset /\ UNCHANGED lastToggle
  \/ \E i \in DOMAIN inflight : Resolve(i) /\ UNCHANGED <<lastToggle, dom>>
  \/ Render /\ UNCHANGED <<lastToggle, dom>>

SpecPending == Init /\ [][NextPending]_vars

\* the validation run that started first resumes
ResolveHead == inflight # <<>> /\ Resolve(1) /\ UNCHANGED <<lastToggle, dom>>

\* the same under the assumption that every validator call resolves in the end
SpecPendingFair == SpecPending /\ WF_vars(ResolveHead)

(***************************************************************************)
(* The same form constructed with defaults for the checkbox group only:    *)
(* the text field and the third key have no default.                       *)
(***************************************************************************)
DefaultsTagsOnly == [name |-> Absent, tags |-> Arr(<<"x">>), crsf |-> Absent]

InitPartial == Construct({DefaultsTagsOnly})

SpecPartial == InitPartial /\ [][NextAttach]_vars

(***************************************************************************)
(* A checkbox group driven by change events only, each handled by the      *)
(* handlers of a render that shows every earlier write.                    *)
(***************************************************************************)
InitGroup == Construct(DefaultChoices)

GroupChange(k, ev) ==
  /\ values = queuedValues
  /\ HandleInputChange(k, InputEvent(ev))
  /\ lastToggle' = [lastToggle EXCEPT ![ev.value] = IF ev.checked THEN "on" ELSE "off"]
  /\ UNCHANGED dom

NextGroup ==
  \/ \E k \in GroupKeys : \E ev \in GroupEvents : GroupChange(k, ev)
  \/ Render /\ UNCHANGED <<lastToggle, dom>>

SpecGroup == InitGroup /\ [][NextGroup]_vars

(***************************************************************************)
(* The input adapter on one field: the element bound to the key is a       *)
(* checkbox, a multi-select or a custom component that notifies with       *)
(* direct values, and the application writes the same values with          *)
(* setValue.                                                               *)
(***************************************************************************)
\* a form whose checkbox field has a boolean default
DefaultsFlag == [name |-> Str("Ann"), tags |-> Bool(FALSE), crsf |-> Str("bla")]
AdapterDefaults == {DefaultsAnn, DefaultsFlag}

\* value attributes of the checkboxes, and of the options of the select in document order
AdapterTokens == <<"x", "music", "sports">>
\* every selection state of the options
SelectEvents ==
  {SelectEvent([j \in DOMAIN AdapterTokens |-> [value |-> AdapterTokens[j], selected |-> sel[j]]]) :
     sel \in [DOMAIN AdapterTokens -> BOOLEAN]}
AdapterEvents ==
  {CheckboxEvent(AdapterTokens[j], c) : j \in DOMAIN AdapterTokens, c \in BOOLEAN}
    \cup SelectEvents
\* direct values of a change notification, and values passed to setValue
AdapterValues == {Null, Undef, Str(""), Arr(<<"music">>)}

InitAdapter ==
  /\ Construct(AdapterDefaults)
  /\ ~hasValidator

NextAdapter ==
  \/ \E k \in GroupKeys : \E ev \in AdapterEvents :
       HandleInputChange(k, InputEvent(ev)) /\ UNCHANGED <<lastToggle, dom>>
  \/ \E k \in GroupKeys : \E v \in AdapterValues :
       HandleInputChange(k, DirectValue(v)) /\ UNCHANGED <<lastToggle, dom>>
  \/ \E k \in GroupKeys : \E v \in AdapterValues : SetValue(k, v) /\ UNCHANGED <<lastToggle, dom>>
  \/ Render /\ UNCHANGED <<lastToggle, dom>>

SpecAdapter == InitAdapter /\ [][NextAdapter]_vars

(***************************************************************************)
(* One change notification of each kind (a text event, a checkbox event, a *)
(* multi-select event, a direct value) on one field, among the lifecycle   *)
(* operations.                                                             *)
(***************************************************************************)
NotifyInputs ==
  {InputEvent(TextEvent("")),
   InputEvent(CheckboxEvent("music", TRUE)),
   InputEvent(SelectEvent(<<[value |-> "x", selected |-> TRUE],
                            [value |-> "music", selected |-> FALSE],
                            [value |-> "sports", selected |-> TRUE]>>)),
   DirectValue(Null)}

NextNotify ==
  \/ \E k \in GroupKeys : \E e \in NotifyInputs :
       HandleInputChange(k, e) /\ UNCHANGED <<lastToggle, dom>>
  \/ \E k \in GroupKeys : CanStartRun /\ OnBlur(k) /\ UNCHANGED <<lastToggle, dom>>
  \/ Reset /\ UNCHANGED lastToggle
  \/ CanStartRun /\ HandleSubmit /\ UNCHANGED <<lastToggle, dom>>
  \/ \E i \in DOMAIN inflight : Resolve(i) /\ UNCHANGED <<lastToggle, dom>>
  \/ Render /\ UNCHANGED <<lastToggle, dom>>

SpecNotify == Init /\ [][NextNotify]_vars

(***************************************************************************)
(* The form in the document: its elements mount, are set up again after a  *)
(* render and unmount, the user types, clicks the checkbox and chooses a   *)
(* file, and the form is reset.  The text field and the file field have a  *)
(* default or none; the form has no validator.                             *)
(***************************************************************************)
InitDom ==
  /\ Construct({DefaultsAnn, DefaultsTagsOnly})
  /\ ~hasValidator

\* the change event of a file input (target.value is the path of the chosen file)
FileEvent(v) == [type |-> "file", value |-> v, checked |-> FALSE, options |-> <<>>]

\* the browser changes the node on the user's input and dispatches the change event
UserInput(element, node, ev) ==
  /\ elements[element].attached
  /\ HandleInputChange(NameOf(element), InputEvent(ev))
  /\ elements' = [elements EXCEPT ![element] = node]
  /\ UNCHANGED <<timers, lastToggle>>

UserTypes(element, v) ==
  /\ ElementType(element) = "text"
  /\ UserInput(element, [elements[element] EXCEPT !.shown = v, !.dirty = TRUE], TextEvent(v))

UserClicks(element) ==
  /\ ElementType(element) = "checkbox"
  /\ LET checked == ~elements[element].checked
     IN UserInput(element, [elements[element] EXCEPT !.checked = checked],
                  CheckboxEvent(ValueAttr(element), checked))

UserPicksFile(element, v) ==
  /\ ElementType(element) = "file"
  /\ UserInput(element, [elements[element] EXCEPT !.shown = v, !.dirty = TRUE], FileEvent(v))

NextDom ==
  \/ \E element \in Elements : RefCallback(NameOf(element), element) /\ UNCHANGED lastToggle
  \/ \E element \in Elements : Detach(element) /\ UNCHANGED lastToggle
  \/ DeferredPass /\ UNCHANGED lastToggle
  \/ \E element \in Elements : UserTypes(element, "Bob")
  \/ \E element \in Elements : UserClicks(element)
  \/ \E element \in Elements : UserPicksFile(element, "pic.png")
  \/ Reset /\ UNCHANGED lastToggle
  \/ Render /\ UNCHANGED <<lastToggle, dom>>

SpecDom == InitDom /\ [][NextDom]_vars

(***************************************************************************)
(* Binding among the operations on the text field: the text input and the  *)
(* checkbox mount, are set up again and unmount while the text field is    *)
(* written, blurred, validated, submitted and reset.                       *)
(***************************************************************************)
BoundElements == {"nameInput", "tagsX"}

NextBind ==
  \/ \E k \in TextKeys : \E e \in ChangeInputs(k) :
       HandleInputChange(k, e) /\ UNCHANGED <<lastToggle, dom>>
  \/ \E k \in TextKeys : CanStartRun /\ OnBlur(k) /\ UNCHANGED <<lastToggle, dom>>
  \/ \E element \in BoundElements :
       RefCallback(NameOf(element), element) /\ UNCHANGED lastToggle
  \/ \E element \in BoundElements : Detach(element) /\ UNCHANGED lastToggle
  \/ DeferredPass /\ UNCHANGED lastToggle
  \/ Reset /\ UNCHANGED lastToggle
  \/ CanStartRun /\ HandleSubmit /\ UNCHANGED <<lastToggle, dom>>
  \/ \E i \in DOMAIN inflight : Resolve(i) /\ UNCHANGED <<lastToggle, dom>>
  \/ Render /\ UNCHANGED <<lastToggle, dom>>

SpecBind == Init /\ [][NextBind]_vars

(***************************************************************************)
(* The two storage modes with every re-render completed: each operation,   *)
(* and each completion of a validation run, is handled once React has      *)
(* rendered the writes queued before it.                                   *)
(***************************************************************************)
\* the handlers are those of a render that shows every queued write
Rendered == values = queuedValues

NextModes ==
  \/ \E k \in Keys : \E e \in ChangeInputs(k) :
       Rendered /\ HandleInputChange(k, e) /\ UNCHANGED <<lastToggle, dom>>
  \/ \E k \in TextKeys : \E v \in SetValueInputs(k) :
       Rendered /\ SetValue(k, v) /\ UNCHANGED <<lastToggle, dom>>
  \/ \E k \in TextKeys : Rendered /\ CanStartRun /\ OnBlur(k) /\ UNCHANGED <<lastToggle, dom>>
  \/ Rendered /\ Reset /\ UNCHANGED lastToggle
  \/ Rendered /\ CanStartRun /\ HandleSubmit /\ UNCHANGED <<lastToggle, dom>>
  \/ \E i \in DOMAIN inflight : Rendered /\ Resolve(i) /\ UNCHANGED <<lastToggle, dom>>
  \/ Render /\ UNCHANGED <<lastToggle, dom>>

SpecModes == Init /\ [][NextModes]_vars

(***************************************************************************)
(* Properties                                                              *)
(***************************************************************************)
\* C1: in every reachable state, every key in the modified set has in the merged
\* snapshot the value the raw store holds for it, whatever its default is (also an
\* empty string or an empty array): a cleared field does not revert to its default.
C1_ModifiedReadsRawStore ==
  \A k \in modifiedFieldsRef :
    /\ HasKey(Snapshot, k)
    /\ Snapshot[k] = Get(RawStore, k)
    /\ VisibleSnapshot[k] = Get(VisibleRawStore, k)

\* a text field with a non-empty default was cleared, and a checkbox group with a
\* non-empty default was emptied
C1_Witness ==
  /\ {"name", "tags"} \subseteq modifiedFieldsRef
  /\ defaultValuesRef["name"] = Str("Ann") /\ RawStore["name"] = Str("")
  /\ defaultValuesRef["tags"] = Arr(<<"x">>) /\ RawStore["tags"] = Arr(<<>>)
  /\ Snapshot["name"] = Str("") /\ Snapshot["tags"] = Arr(<<>>)

\* C2: in every reachable state, a key that is neither in the modified set nor in
\* the raw store has its default value in the merged snapshot.
C2_UntouchedReadsDefault ==
  /\ \A k \in Keys : (k \notin modifiedFieldsRef /\ ~HasKey(RawStore, k))
                         => Snapshot[k] = defaultValuesRef[k]
  /\ \A k \in Keys : (k \notin modifiedFieldsRef /\ ~HasKey(VisibleRawStore, k))
                         => VisibleSnapshot[k] = defaultValuesRef[k]

\* the name was cleared while the checkbox group was never written
C2_Witness ==
  /\ last.op = "change" /\ last.key = "name"
  /\ "tags" \notin modifiedFieldsRef /\ ~HasKey(RawStore, "tags")
  /\ Snapshot["tags"] = Arr(<<"x">>)
  /\ Snapshot["crsf"] = Str("bla")

\* a step of one of the given operations on field j: the operation is the last one
\* handled after the step, and the step is not a render (which alone writes values)
OperationOn(ops, j) ==
  /\ values' = values
  /\ last'.op \in ops
  /\ last'.key = j

\* C3: the key without an input element reaches the onSubmit callback with its
\* default value, and a change, blur or setValue of field j leaves the snapshot
\* value of every other key as it was.
C3_OtherKeysPersist ==
  /\ [](last.cbCalled => last.cbArg["crsf"] = defaultValuesRef["crsf"])
  /\ [][\A j \in Keys : OperationOn({"change", "blur", "setValue"}, j) =>
          \A k \in Keys \ {j} : /\ Snapshot'[k] = Snapshot[k]
                                 /\ VisibleSnapshot'[k] = VisibleSnapshot[k]]_vars

\* a submission made after the checkbox group was emptied handed the callback the
\* emptied group together with the default of the key without an element
C3_Witness ==
  /\ last.cbCalled
  /\ last.cbArg["tags"] = Arr(<<>>)
  /\ last.cbArg["crsf"] = Str("bla")
  /\ touched["tags"] = Bool(TRUE)

C5_ResetRestoresDefaults ==
  last.op = "reset" =>
    /\ VisibleSnapshot = defaultValuesRef
    /\ (values = queuedValues => Snapshot = defaultValuesRef)
    /\ errors = EmptyObject
    /\ touched = EmptyObject
    /\ isDirty = FALSE

\* reset() was called while the last render still showed a cleared name and a
\* validation run was awaiting its validator
C5_Witness ==
  /\ last.op = "reset"
  /\ controlled /\ values["name"] = Str("")
  /\ Len(inflight) > 0
  /\ VisibleSnapshot = DefaultsAnn

\* C6: when the validator returns a non-empty error map for the snapshot it was
\* given, the submit handler does not call onSubmit, and once the handler has
\* completed the error map is the validator's result.
C6_InvalidSubmitBlocked ==
  (/\ last.op = "resolve" /\ last.kind = "submit" /\ last.vcall
   /\ ObjectKeys(Validator(last.snap)) # {})
    => /\ ~last.cbCalled
       /\ errors = Validator(last.snap)

\* a submit of a form whose name was cleared completed without calling onSubmit
C6_Witness ==
  /\ last.op = "resolve" /\ last.kind = "submit"
  /\ last.snap["name"] = Str("")
  /\ ~last.cbCalled
  /\ errors["name"] = Str("Name is required")

C8_ValidatedOnSubmitOnly ==
  /\ \A i \in DOMAIN inflight : inflight[i].vcall => inflight[i].kind = "submit"
  /\ (last.op = "resolve" /\ last.vcall) => last.kind = "submit"

\* the array holds no token twice
NoDuplicates(arr) == \A i, j \in DOMAIN arr : arr[i] = arr[j] => i = j
\* the position of a token the array holds
Position(arr, x) == CHOOSE i \in DOMAIN arr : arr[i] = x
\* tokens kept from old to new keep their relative order, and a token new holds
\* and old does not is the last one of new
InsertionOrderKept(old, new) ==
  /\ \A i, j \in DOMAIN old :
       (i < j /\ Includes(new, old[i]) /\ Includes(new, old[j]))
         => Position(new, old[i]) < Position(new, old[j])
  /\ \A i \in DOMAIN new : ~Includes(old, new[i]) => i = Len(new)

\* C9: a checkbox group with a duplicate-free default array D holds, after any
\* sequence of checkbox change events each handled against the up-to-date snapshot,
\* a duplicate-free array that contains token t exactly when the last event of t was
\* a check, or t had no event and is in D; the tokens keep their insertion order.
C9_GroupFollowsLastEvents ==
  /\ [](\A k \in GroupKeys :
          LET v == VisibleSnapshot[k]
              D == defaultValuesRef[k].a
          IN /\ IsArray(v)
             /\ NoDuplicates(v.a)
             /\ \A t \in Tokens :
                  Includes(v.a, t) <=> \/ lastToggle[t] = "on"
                                       \/ lastToggle[t] = "none" /\ Includes(D, t))
  /\ [][\A k \in GroupKeys :
          InsertionOrderKept(VisibleSnapshot[k].a, VisibleSnapshot'[k].a)]_vars

\* default [], then music on, sports on, music off: the group holds ["sports"]
C9_Witness ==
  /\ defaultValuesRef["tags"] = Arr(<<>>)
  /\ last.op = "change" /\ last.e = InputEvent(CheckboxEvent("music", FALSE))
  /\ last.prev = Arr(<<"music", "sports">>)
  /\ lastToggle = [x |-> "none", music |-> "off", sports |-> "on"]
  /\ VisibleSnapshot["tags"] = Arr(<<"sports">>)

\* C10: a checked event for a token that the current array of the group already
\* holds, and an unchecked event for a token it does not hold, store an array equal
\* to the current one.
C10_ToggleIdempotent ==
  (/\ last.op = "change" /\ last.e.isEvent /\ last.e.ev.type = "checkbox"
   /\ IsArray(last.prev)
   /\ last.e.ev.checked <=> Includes(last.prev.a, last.e.ev.value))
    => /\ last.val = last.prev
       /\ VisibleRawStore[last.key] = last.prev

\* the checkbox of the default token was checked while the group already held it
C10_Witness ==
  /\ last.op = "change" /\ last.e = InputEvent(CheckboxEvent("x", TRUE))
  /\ last.prev = Arr(<<"x">>)
  /\ VisibleRawStore["tags"] = Arr(<<"x">>)

\* a step that starts a validation run, and a step in which one completes
StartsRun == Len(inflight') > Len(inflight)
CompletesRun == Len(inflight') < Len(inflight)

\* C11: isValid is true exactly when the error map has no key, and when a validate()
\* call has completed with no other validation in flight, isValid equals the boolean
\* that call returned.
C11_IsValidMatchesValidate ==
  /\ IsValid(errors) <=> (\A k \in Keys : errors[k] = Absent)
  /\ (last.op = "resolve" /\ inflight = <<>>) => (IsValid(errors) <=> last.valid)

\* a blur validation of a cleared name completed: validate() returned false and
\* isValid is false
C11_Witness ==
  /\ last.op = "resolve" /\ last.kind = "blur" /\ inflight = <<>>
  /\ ~last.valid
  /\ ~IsValid(errors)

\* C12: with a validator configured, a validate() run calls the validator with the
\* merged snapshot as of the start of the run, replaces the error map with the
\* validator's result (a key of the previous error map stays only if the result has
\* it), and returns true exactly when the result has no key.
C12_ValidateReplacesErrors ==
  /\ [][(hasValidator /\ StartsRun) =>
          /\ inflight'[Len(inflight')].vcall
          /\ inflight'[Len(inflight')].snap = Snapshot']_vars
  /\ []((last.op = "resolve" /\ last.vcall) =>
          /\ errors = Validator(last.snap)
          /\ last.valid <=> (\A k \in Keys : Validator(last.snap)[k] = Absent))
  /\ [][(CompletesRun /\ last'.vcall) =>
          \A k \in Keys : HasKey(errors', k) => HasKey(Validator(last'.snap), k)]_vars

\* a validation found no error while the error map held the error of an earlier run:
\* the error map is empty afterwards
C12_Witness ==
  /\ last.op = "resolve" /\ last.vcall /\ last.valid
  /\ last.errs["name"] = Str("Name is required")
  /\ last.snap["name"] = Str("Ann")
  /\ errors = EmptyObject

\* C13: without a validator, validate() returns true and leaves the error map alone,
\* the error map is empty in every reachable state, and every submit handler that
\* has completed has called onSubmit.
C13_NoValidatorTriviallyValid ==
  ~hasValidator =>
    /\ errors = EmptyObject
    /\ \A i \in DOMAIN inflight : ~inflight[i].vcall
    /\ last.op = "resolve" =>
         /\ ~last.vcall /\ last.valid /\ last.errs = errors
         /\ last.kind = "submit" => last.cbCalled

\* without a validator, a form whose name was cleared was submitted and onSubmit
\* was called with the cleared name
C13_Witness ==
  /\ ~hasValidator
  /\ last.op = "resolve" /\ last.kind = "submit" /\ last.cbCalled
  /\ last.cbArg["name"] = Str("")
  /\ errors = EmptyObject

\* C14: in every reachable state the dirty flag is true exactly when the merged
\* snapshot differs from the default values in some field.
C14_DirtyIffDiffers ==
  /\ isDirty <=> (VisibleSnapshot # defaultValuesRef)
  /\ (values = queuedValues) => (isDirty <=> (Snapshot # defaultValuesRef))

\* a step of reset()
ResetStep == last'.op = "reset" /\ modifiedFieldsRef' = {} /\ values' = values

C16_TouchedByBlurOnly ==
  /\ [](last.op = "blur" => touched[last.key] = Bool(TRUE))
  /\ [](\A k \in Keys : touched[k] \in {Absent, Bool(TRUE)})
  /\ [][\A k \in Keys : touched'[k] # touched[k] =>
          \/ last'.op = "blur" /\ last'.key = k /\ touched'[k] = Bool(TRUE)
          \/ ResetStep /\ touched' = EmptyObject]_vars

\* the checkbox group was blurred after the name was: both are touched
C16_Witness ==
  /\ last.op = "blur" /\ last.key = "tags"
  /\ touched["name"] = Bool(TRUE) /\ touched["tags"] = Bool(TRUE)
  /\ touched["crsf"] = Absent

\* C20: when onSubmit throws, the promise of the submit handler rejects, onSubmit was
\* called once, and the step leaves the values, the modified set, the touched map
\* and the dirty flag as they were, and the error map as validate() set it before
\* the callback ran.
C20_CallbackErrorPropagates ==
  /\ []((last.op = "resolve" /\ last.threw) =>
          /\ last.cbCalled /\ last.rejected
          /\ last.trace = <<"preventDefault", "validate", "onSubmit">>)
  /\ []((last.op = "resolve" /\ ~last.threw) => ~last.rejected)
  /\ [][(CompletesRun /\ last'.threw) =>
          /\ UNCHANGED <<values, queuedValues, formRef, modifiedFieldsRef, touched, isDirty>>
          /\ errors' = IF last'.vcall THEN Validator(last'.snap) ELSE errors]_vars

\* onSubmit threw for a valid form with a modified and touched field
C20_Witness ==
  /\ last.op = "resolve" /\ last.kind = "submit" /\ last.threw /\ last.rejected
  /\ last.cbArg["tags"] = Arr(<<>>)
  /\ touched["tags"] = Bool(TRUE) /\ isDirty

\* C17: a change event of a multi-select stores the values of the options selected
\* at the event, each once and in option order, whatever the field held before and
\* whatever its default is.
C17_SelectStoresSelection ==
  (/\ last.op = "change" /\ last.e.isEvent /\ last.e.ev.type = "select-multiple")
    => LET options == last.e.ev.options
           v == last.val
       IN /\ IsArray(v)
          /\ NoDuplicates(v.a)
          /\ \A j \in DOMAIN options : Includes(v.a, options[j].value) <=> options[j].selected
          /\ \A i \in DOMAIN v.a : \E j \in DOMAIN options : v.a[i] = options[j].value
          /\ \A i, j \in DOMAIN options :
               (i < j /\ options[i].selected /\ options[j].selected)
                 => Position(v.a, options[i].value) < Position(v.a, options[j].value)
          /\ VisibleRawStore[last.key] = v

\* the field held ["music", "x"]; a change event with the first two of the three
\* options selected stored ["x", "music"]
C17_Witness ==
  /\ last.op = "change" /\ last.e.isEvent /\ last.e.ev.type = "select-multiple"
  /\ last.prev = Arr(<<"music", "x">>)
  /\ \A j \in DOMAIN last.e.ev.options :
       last.e.ev.options[j].selected <=> last.e.ev.options[j].value # "sports"
  /\ VisibleRawStore["tags"] = Arr(<<"x", "music">>)

\* C18: a checkbox change event stores an array (holding the token exactly when the
\* box is checked) exactly when the default value of the field or its snapshot
\* value before the event is an array; otherwise it stores the boolean checked state.
C18_GroupIffArray ==
  [][\A k \in Keys :
      (OperationOn({"change"}, k) /\ last'.e.isEvent /\ last'.e.ev.type = "checkbox")
        => LET ev == last'.e.ev
               group == IsArray(defaultValuesRef[k]) \/ IsArray(Snapshot[k])
           IN /\ IF group
                 THEN /\ IsArray(last'.val)
                      /\ Includes(last'.val.a, ev.value) <=> ev.checked
                 ELSE last'.val = Bool(ev.checked)
              /\ VisibleRawStore'[k] = last'.val]_vars

\* the default is a boolean and the field held ["music"]: checking the box of "x"
\* stored ["music", "x"]
C18_Witness ==
  /\ defaultValuesRef["tags"] = Bool(FALSE)
  /\ last.op = "change" /\ last.e = InputEvent(CheckboxEvent("x", TRUE))
  /\ last.prev = Arr(<<"music">>)
  /\ VisibleRawStore["tags"] = Arr(<<"music", "x">>)

\* the effect of writing v to key k: k joins the modified set, the store holds v for
\* k and keeps its other keys, the dirty flag is set, the snapshot reads v for k
WritesVerbatim(k, v) ==
  /\ modifiedFieldsRef' = modifiedFieldsRef \cup {k}
  /\ VisibleRawStore'[k] = v
  /\ \A j \in Keys \ {k} : VisibleRawStore'[j] = VisibleRawStore[j]
  /\ IF controlled THEN formRef' = formRef ELSE queuedValues' = queuedValues
  /\ isDirty'
  /\ VisibleSnapshot'[k] = v
  /\ UNCHANGED <<errors, touched, inflight, registeredFieldsRef>>

\* C19: a change notification carrying a direct value v (null, undefined, the empty
\* string, an array) stores v as it is, and its effect on the raw store, the modified
\* set, the dirty flag and the snapshot is that of setValue(k, v).
C19_DirectValueVerbatim ==
  /\ []((last.op = "change" /\ ~last.e.isEvent) => last.val = last.e.direct)
  /\ [][\A k \in Keys :
          (OperationOn({"change"}, k) /\ ~last'.e.isEvent) =>
             WritesVerbatim(k, last'.e.direct)]_vars
  /\ [][\A k \in Keys :
          OperationOn({"setValue"}, k) => WritesVerbatim(k, last'.val)]_vars

\* a custom component notified null for a field that held an array
C19_Witness ==
  /\ last.op = "change" /\ last.e = DirectValue(Null)
  /\ defaultValuesRef["tags"] = Arr(<<"x">>)
  /\ VisibleSnapshot["tags"] = Null
  /\ "tags" \in modifiedFieldsRef /\ isDirty

\* C27: every change notification handled for key k (an event of a checkbox, of a
\* multi-select or of another input, or a direct value) adds k to the modified set,
\* and a key in the modified set stays in it through every operation but reset.
C27_ModifiedUntilReset ==
  /\ [](last.op = "change" => last.key \in modifiedFieldsRef)
  /\ [][\A k \in Keys : (k \in modifiedFieldsRef /\ ~ResetStep) =>
          k \in modifiedFieldsRef']_vars
  /\ [][ResetStep => modifiedFieldsRef' = {}]_vars

\* the field was changed by a multi-select event, then blurred, and a submit has
\* completed: the key is still in the modified set
C27_Witness ==
  /\ last.op = "resolve" /\ last.kind = "submit"
  /\ touched["tags"] = Bool(TRUE)
  /\ VisibleRawStore["tags"] = Arr(<<"x", "sports">>)
  /\ "tags" \in modifiedFieldsRef

\* C30: a blur of a field that was not written since construction or the last reset
\* leaves its value alone: the snapshot still reads the default for it, and every
\* key in the modified set has a value in the raw store.
C30_BlurKeepsValue ==
  /\ \A k \in modifiedFieldsRef : HasKey(VisibleRawStore, k)
  /\ (last.op = "blur" /\ ~HasKey(VisibleRawStore, last.key))
       => VisibleSnapshot[last.key] = defaultValuesRef[last.key]

\* C23: the keys of the merged snapshot are the keys of the default values, the keys
\* in the modified set and the keys of the raw store, and no other.
C23_SnapshotKeys ==
  /\ ObjectKeys(Snapshot) =
       ObjectKeys(defaultValuesRef) \cup modifiedFieldsRef \cup ObjectKeys(RawStore)
  /\ ObjectKeys(VisibleSnapshot) =
       ObjectKeys(defaultValuesRef) \cup modifiedFieldsRef \cup ObjectKeys(VisibleRawStore)

\* the text field, which has no default, was blurred and never written: the snapshot
\* has its key (with the value undefined) and the key of the group, not the third key
C23_Witness ==
  /\ last.op = "blur" /\ last.key = "name"
  /\ ~HasKey(defaultValuesRef, "name") /\ ~HasKey(RawStore, "name")
  /\ ObjectKeys(Snapshot) = {"name", "tags"}
  /\ Snapshot["name"] = Undef

\* C21: validation runs in flight at once are neither cancelled nor fenced: a step
\* that starts a run or handles another operation keeps every run in flight, a
\* completing run takes only itself out, and every completing run writes its result
\* to the error map, so that after all have resolved the error map is the result of
\* the run that resolved last, also when that run started first.
C21_LastResolvedWins ==
  /\ []((last.op = "resolve" /\ last.vcall) => errors = Validator(last.snap))
  /\ [][StartsRun => SubSeq(inflight', 1, Len(inflight)) = inflight]_vars
  /\ [][CompletesRun =>
          \E i \in DOMAIN inflight : inflight' = RemoveAt(inflight, i)]_vars
  /\ [][(~StartsRun /\ ~CompletesRun) => inflight' = inflight]_vars

\* a submit started with the name "Ann"; the name was cleared and a blur validation
\* started later resolved first with an error; then the submit resolved: the error
\* map is empty again although the name is still cleared
C21_Witness ==
  /\ last.op = "resolve" /\ last.kind = "submit"
  /\ inflight = <<>>
  /\ last.snap["name"] = Str("Ann")
  /\ last.errs["name"] = Str("Name is required")
  /\ errors = EmptyObject
  /\ VisibleSnapshot["name"] = Str("")

\* C24: errors are data: whatever the error map holds, a change and a setValue write
\* the value, a blur marks the field, none of them touches the error map, and a
\* submit calls onSubmit exactly when the validator run it starts finds no error in
\* the snapshot of that moment, leaving the error map equal to that run's result.
C24_ErrorsDoNotBlock ==
  /\ [][\A k \in Keys :
          OperationOn({"change", "setValue"}, k) => WritesVerbatim(k, last'.val)]_vars
  /\ [][\A k \in Keys :
          OperationOn({"blur"}, k) =>
            /\ touched' = With(touched, k, Bool(TRUE))
            /\ modifiedFieldsRef' = modifiedFieldsRef \cup {k}
            /\ UNCHANGED <<errors, formRef, queuedValues, isDirty>>]_vars
  /\ [][(StartsRun /\ hasValidator) => inflight'[Len(inflight')].snap = Snapshot']_vars
  /\ []((last.op = "resolve" /\ last.kind = "submit" /\ last.vcall) =>
          /\ last.cbCalled <=> (Validator(last.snap) = EmptyObject)
          /\ errors = Validator(last.snap))

\* with "Name is required" in the error map the name was filled in and the form
\* submitted: onSubmit was called with the new name and the error map is empty
C24_Witness ==
  /\ last.op = "resolve" /\ last.kind = "submit" /\ last.cbCalled
  /\ last.errs["name"] = Str("Name is required")
  /\ last.cbArg["name"] = Str("Bob")
  /\ errors = EmptyObject

AttachedKeys == {NameOf(element) : element \in {el \in Elements : elements[el].attached}}

\* C22: in every reachable state the registered set holds exactly the keys that have
\* an element attached: a key enters it when its element attaches and is out of it
\* once its element has detached.
C22_RegisteredIffAttached == registeredFieldsRef = AttachedKeys

\* a step of the ref callback of register(name)
RefStep == last'.op = "ref" /\ values' = values

\* C29: binding is informational only.  The ref callback called with an element adds
\* the key to the registered set and writes to that element and to nothing else: the
\* raw store, the modified set, the merged snapshot, the errors, the touched map and
\* the dirty flag stay as they are; called with null it changes neither the
\* registered set nor the display of any element in the document.
C29_BindingInformational ==
  [][RefStep =>
       /\ UNCHANGED <<config, formRef, queuedValues, modifiedFieldsRef, errors, touched,
                      isDirty, inflight>>
       /\ Snapshot' = Snapshot
       /\ VisibleSnapshot' = VisibleSnapshot
       /\ \A element \in Elements :
            NameOf(element) # last'.key => elements'[element] = elements[element]
       /\ last'.kind = "attach" => registeredFieldsRef' = registeredFieldsRef \cup {last'.key}
       /\ last'.kind = "detach" =>
            /\ registeredFieldsRef' = registeredFieldsRef
            /\ \A element \in Elements :
                 elements'[element].attached => elements'[element] = elements[element]]_vars

\* the checkbox attached while the name was cleared, blurred and found missing by
\* the validator: the key is registered, a deferred pass is pending, and the
\* modified set, the error, the touched mark and the dirty flag are in place
C29_Witness ==
  /\ last.op = "ref" /\ last.kind = "attach" /\ last.key = "tags"
  /\ registeredFieldsRef = {"tags"}
  /\ elements["tagsX"].attached /\ timers # <<>>
  /\ modifiedFieldsRef = {"name"}
  /\ errors["name"] = Str("Name is required")
  /\ touched["name"] = Bool(TRUE)
  /\ isDirty

\* what a bound element shows when it shows the default value of its field
ShowsDefault(element, node) ==
  LET defaultValue == defaultValuesRef[NameOf(element)]
  IN IF ElementType(element) = "checkbox"
     THEN node.checked <=> \/ IsArray(defaultValue) /\ Includes(defaultValue.a, ValueAttr(element))
                           \/ defaultValue = Bool(TRUE)
     ELSE node.shown = DefaultText(defaultValue)

\* C26: the sweep of reset() leaves every bound element that is not a file input
\* showing the default value of its field (checked state for a checkbox, string
\* value otherwise) and leaves every file input as it was.
C26_SweepRestoresDefaults ==
  [][ResetStep =>
       \A element \in Elements :
         (elements[element].attached /\ NameOf(element) \in registeredFieldsRef) =>
           IF ElementType(element) = "file"
           THEN elements'[element] = elements[element]
           ELSE ShowsDefault(element, elements'[element])]_vars

\* C28: after reset() the form is in the state of a newly constructed form with the
\* same defaults: the raw store, the modified set and the registered set are empty,
\* the errors, the touched map and the dirty flag are initial, the handlers read the
\* defaults as the snapshot, and no earlier operation is still to write anything.
C28_ResetEqualsConstruction ==
  last.op = "reset" =>
    /\ formRef = EmptyObject /\ queuedValues = EmptyObject
    /\ modifiedFieldsRef = {} /\ registeredFieldsRef = {}
    /\ errors = EmptyObject /\ touched = EmptyObject /\ ~isDirty
    /\ Snapshot = defaultValuesRef
    /\ inflight = <<>>

\* C31: the values handed to onSubmit are the values that were validated in the same
\* submission: whenever a submit handler that called its validator calls onSubmit,
\* the argument is the snapshot the validator was called with.
C31_CallbackGetsValidated ==
  (last.op = "resolve" /\ last.kind = "submit" /\ last.vcall /\ last.cbCalled) =>
    last.cbArg = last.snap

\* C32: a reset is not undone by a validation that was in flight: when the first
\* step after reset() that is not a render is the completion of a validation run
\* (which started before the reset, nothing having started since), the error map is
\* still empty after it.
C32_ResetNotUndone ==
  [][(last.op = "reset" /\ last'.op = "resolve") => errors' = EmptyObject]_vars

\* C33: isValid never reports as valid a form that the validator would reject: in
\* every rendered state with a validator and no validation in flight, isValid being
\* true implies that the validator returns no error for the merged snapshot.
C33_IsValidImpliesAccepted ==
  (hasValidator /\ inflight = <<>> /\ values = queuedValues /\ IsValid(errors)) =>
    Validator(Snapshot) = EmptyObject

\* the raw store without regard to the storage mode: the mutable cell, or the values
\* state with the queued updates applied
Store == VisibleRawStore

\* C34: the two storage modes are observationally equivalent when every re-render
\* completes between the operations.  Both modes are held against one course of the
\* store that does not depend on the mode: a change or a setValue writes the value
\* into the store, a reset empties it, a validation run validates the merge of the
\* store of the moment it starts, and a submit handler hands to onSubmit the merge of
\* the store of the moment it calls, which is what the uncontrolled mode does.
C34_ModesAgree ==
  /\ [][\A k \in Keys :
          OperationOn({"change", "setValue"}, k) => Store' = With(Store, k, last'.val)]_vars
  /\ [][ResetStep => Store' = EmptyObject]_vars
  /\ [][(StartsRun /\ hasValidator) =>
          inflight'[Len(inflight')].snap = MergeValues(Store, modifiedFieldsRef')]_vars
  /\ []((last.op = "resolve" /\ last.vcall /\ last.cbCalled) =>
          last.cbArg = MergeValues(Store, modifiedFieldsRef))

\* C35: in controlled mode a write is atomic to readers: after a change or a
\* setValue of key k, until the next render, the snapshot that the handlers of the
\* previous render compute holds for k the value it held before the write or the
\* written value, never undefined.
C35_ControlledWriteAtomic ==
  [][\A k \in Keys :
       (controlled /\ OperationOn({"change", "setValue"}, k)) =>
         /\ Snapshot'[k] \in {Snapshot[k], last'.val}
         /\ Snapshot'[k] \notin {Absent, Undef}]_vars

\* the checked state of a checkbox that shows the value v of its field
ShowsValue(element, v) ==
  \/ IsArray(v) /\ Includes(v.a, ValueAttr(element))
  \/ v = Bool(TRUE)

\* a step of the deferred pass of setupInputElement
DeferredStep == last'.op = "deferred" /\ Len(timers') < Len(timers)

\* C36: the deferred pass of setupInputElement never overwrites a newer state: the
\* checked state that a pass leaves on a checkbox is the one of the field's merged
\* snapshot at the time the pass runs, and once no pass is pending every checkbox in
\* the document agrees with the snapshot.
C36_DeferredPassCurrent ==
  /\ [][DeferredStep =>
          \A element \in Elements :
            (ElementType(element) = "checkbox" /\ NameOf(element) = last'.key) =>
              (elements'[element].checked <=>
                 ShowsValue(element, VisibleSnapshot[NameOf(element)]))]_vars
  /\ [](timers = <<>> =>
          \A element \in Elements :
            (ElementType(element) = "checkbox" /\ elements[element].attached) =>
              (elements[element].checked <=>
                 ShowsValue(element, VisibleSnapshot[NameOf(element)])))

(***************************************************************************)
(* The caller's defaultValues option over the renders: the hook is called  *)
(* again with another defaultValues object while the text input and the    *)
(* checkbox are in the document, the user edits them and the form is       *)
(* reset.                                                                  *)
(***************************************************************************)
PropElements == {"nameInput", "tagsX"}

\* a render in which useForm receives another defaultValues object: the ref keeps the
\* object of the first render, the callbacks of this render close over the new one
RenderWithDefaults(d) ==
  /\ d # defaultValues
  /\ defaultValues' = d
  /\ values' = queuedValues
  /\ UNCHANGED <<controlled, hasValidator, defaultValuesRef, refs, queuedValues,
                 errors, touched, isDirty, inflight, last>>

NextProps ==
  \/ \E element \in PropElements : RefCallback(NameOf(element), element) /\ UNCHANGED lastToggle
  \/ DeferredPass /\ UNCHANGED lastToggle
  \/ \E element \in PropElements : UserTypes(element, "Bob")
  \/ \E element \in PropElements : UserClicks(element)
  \/ Reset /\ UNCHANGED lastToggle
  \/ Render /\ UNCHANGED <<lastToggle, dom>>
  \/ \E d \in DefaultChoices : RenderWithDefaults(d) /\ UNCHANGED <<lastToggle, dom>>

SpecProps == Init /\ [][NextProps]_vars

\* what an element shows when it shows the value v of its field
Shows(element, node, v) ==
  IF ElementType(element) = "checkbox"
  THEN node.checked <=> ShowsValue(element, v)
  ELSE node.shown = DefaultText(v)

\* C37: reset() uses one set of defaults: the sweep writes into the elements the
\* construction-time defaults that the merged snapshot falls back to, also after a
\* render that passed another defaultValues object, so after reset every swept
\* element shows the value that the snapshot reports for its key.
C37_ResetUsesOneDefaults ==
  [][ResetStep =>
       \A element \in Elements :
         (/\ elements[element].attached
          /\ HasKey(defaultValues, NameOf(element))
          /\ ElementType(element) # "file") =>
           Shows(element, elements'[element], VisibleSnapshot'[NameOf(element)])]_vars

====
